---- MODULE Spec2Model ----
(***************************************************************************)
(* Model of server.js: the upstream Finnhub WebSocket (`socket`), the two  *)
(* module-level maps (`subscriptions`, `liveStockData`), the Stock table   *)
(* reached through prisma, and the express handlers that touch them.       *)
(* Every async handler is cut at its `await`s: the code between two awaits *)
(* runs to completion on the event loop and is one action.                 *)
(***************************************************************************)
EXTENDS Integers, Sequences, FiniteSets, TLC

\* ------------------------------------------------------------------ bounds
MaxReq    == 2   \* HTTP requests that arrive in one run
MaxFrames == 2   \* upstream frames delivered in one run
MaxAmount == 2   \* largest quantityToSell / quantityToBuy of a request
MaxQty    == 2   \* largest quantity of a Stock row at start-up

\* --------------------------------------------------------------- constants
BTC == "BINANCE:BTCUSDT"
ETH == "BINANCE:ETHUSDT"
BNB == "BINANCE:BNBUSDT"
ADA == "BINANCE:ADAUSDT"
SOL == "BINANCE:SOLUSDT"
AAPL == "AAPL"

\* server.js:28, the list the 'open' handler subscribes to
initialStocks == <<BTC, ETH, BNB, ADA, SOL>>

\* the WebSocket object created at module load (server.js:17)
InitialSocket == 1

\* tickers that requests and trades name: one of the initial list, one outside it
Tickers == {BTC, AAPL}
\* "" stands for a request body without the field
ReqSymbols == Tickers \cup {""}
Clients == {"S1", "S2"}
Prices == {1, 2}
\* lengths of the data array of a trade frame
TradeCounts == {0, 1, 2}
Amounts == 0..MaxAmount

VARIABLES
  socket,         \* the WebSocket object the `socket` binding refers to
  readyState,     \* readyState of every WebSocket object created so far
  timer,          \* the setTimeout of the 'close' handler is pending
  crashed,        \* the process died of an 'error' event nobody listens to
  sent,           \* control messages transmitted upstream, in order
  frames,         \* frames the upstream delivered, in order, with their socket
  liveStockData,  \* Map symbol -> price
  subscriptions,  \* Map symbol -> Set of response objects
  ledger,         \* the Stock table: ticker -> [quantity, buyPrice]
  ledger0,        \* the Stock table at start-up
  reqs,           \* every HTTP request so far: its inputs, position and response
  interested,     \* per symbol, the clients whose last answered intent was subscribe
  delivered       \* update messages written to a stored response object

vars == <<socket, readyState, timer, crashed, sent, frames, liveStockData,
          subscriptions, ledger, ledger0, reqs, interested, delivered>>

feedVars == <<socket, readyState, timer, crashed, sent, frames, liveStockData,
              delivered>>
httpVars == <<subscriptions, ledger, ledger0, reqs, interested>>

\* ----------------------------------------------------------------- helpers
EmptyMap == [k \in {} |-> 0]

\* Map.prototype.set
MapSet(m, k, v) == [x \in DOMAIN m \cup {k} |-> IF x = k THEN v ELSE m[x]]

\* Map.prototype.delete
MapDelete(m, k) == [x \in DOMAIN m \ {k} |-> m[x]]

\* Map.prototype.has
MapHas(m, k) == k \in DOMAIN m

SeqRangeOf(s) == {s[i] : i \in 1..Len(s)}

\* The handlers of lines 26-63 are registered on the object of line 17 only;
\* the object the timer creates (line 61) gets none.
HasListeners(ws) == ws = InitialSocket

\* ------------------------------------------------------------------- frames
\* An element of a trade frame's data array: a trade, or null ("nil").
Trade(s, p) == [nil |-> FALSE, s |-> s, p |-> p]
NullElement == [nil |-> TRUE, s |-> "", p |-> 0]
Elements == {Trade(s, p) : s \in Tickers, p \in Prices} \cup {NullElement}

ElementSeqs == UNION {[1..n -> Elements] : n \in TradeCounts}

\* json: JSON.parse succeeds; type: message.type; data: what message.data is
\* ("absent" when falsy, "object" when truthy but no array, "array").
Frame(json, type, data, trades) ==
  [json |-> json, type |-> type, data |-> data, trades |-> trades]

Frames ==
  {Frame(FALSE, "", "absent", <<>>),
   Frame(TRUE, "ping", "absent", <<>>),
   Frame(TRUE, "ping", "array", <<Trade(BTC, 1)>>),
   Frame(TRUE, "trade", "absent", <<>>),
   Frame(TRUE, "trade", "object", <<>>)}
  \cup {Frame(TRUE, "trade", "array", t) : t \in ElementSeqs}

\* The forEach with a cache that keeps the first price of a symbol.
RECURSIVE ForEachTradeKeepFirst(_, _, _)
ForEachTradeKeepFirst(cache, trades, i) ==
  IF i > Len(trades) THEN [cache |-> cache, threw |-> FALSE]
  ELSE IF trades[i].nil THEN [cache |-> cache, threw |-> TRUE]
  ELSE ForEachTradeKeepFirst(
         IF MapHas(cache, trades[i].s) THEN cache
         ELSE MapSet(cache, trades[i].s, trades[i].p), trades, i + 1)

\* message.data.forEach(...) of lines 42-45 from element i on: destructuring a
\* null element throws and leaves the entries already set in place.
RECURSIVE ForEachTrade(_, _, _)
ForEachTrade(cache, trades, i) ==
  IF i > Len(trades) THEN [cache |-> cache, threw |-> FALSE]
  ELSE IF trades[i].nil THEN [cache |-> cache, threw |-> TRUE]
  ELSE ForEachTrade(MapSet(cache, trades[i].s, trades[i].p), trades, i + 1)

\* The try block without the test of message.type.
OnMessageAnyType(cache, f) ==
  IF ~f.json THEN [cache |-> cache, threw |-> TRUE]
  ELSE IF f.data # "absent"
    THEN IF f.data = "object"
           THEN [cache |-> cache, threw |-> TRUE]
           ELSE ForEachTrade(cache, f.trades, 1)
    ELSE [cache |-> cache, threw |-> FALSE]

\* The try block of the 'message' handler, lines 38-46.
OnMessage(cache, f) ==
  IF ~f.json THEN [cache |-> cache, threw |-> TRUE]
  ELSE IF f.type = "trade" /\ f.data # "absent"
    THEN IF f.data = "object"
           THEN [cache |-> cache, threw |-> TRUE]
           ELSE ForEachTrade(cache, f.trades, 1)
    ELSE [cache |-> cache, threw |-> FALSE]

\* -------------------------------------------------------------- socket.send
\* ws throws on a CONNECTING socket; on a CLOSING or CLOSED one it throws or
\* discards the message, depending on the ws release.
SendOutcomes(state) ==
  CASE state = "OPEN" -> {"sent"}
    [] state = "CONNECTING" -> {"throws"}
    [] OTHER -> {"throws", "dropped"}

Msg(ws, type, symbol) == [conn |-> ws, type |-> type, symbol |-> symbol]

\* the log after socket.send(JSON.stringify({type, symbol})) with that outcome
Transmit(log, outcome, type, symbol) ==
  IF outcome = "sent" THEN Append(log, Msg(socket, type, symbol)) ELSE log

\* ---------------------------------------------------------------- the ledger
StockRow(q, p) == [quantity |-> q, buyPrice |-> p]

\* prisma.stock.findUnique({where: {ticker}}): <<>> for null, else <<row>>
FindUniqueRow(t) == IF MapHas(ledger, t) THEN <<ledger[t]>> ELSE <<>>

InitialLedgers ==
  {l \in UNION {[d -> {StockRow(q, 1) : q \in 0..MaxQty}] : d \in SUBSET Tickers} :
     TRUE}

\* --------------------------------------------------------------------- Init
Init ==
  /\ socket = InitialSocket
  /\ readyState = [ws \in {InitialSocket} |-> "CONNECTING"]
  /\ timer = FALSE
  /\ crashed = FALSE
  /\ sent = <<>>
  /\ frames = <<>>
  /\ liveStockData = EmptyMap
  /\ subscriptions = EmptyMap
  /\ ledger \in InitialLedgers
  /\ ledger0 = ledger
  /\ reqs = <<>>
  /\ interested = [s \in Tickers |-> {}]
  /\ delivered = {}

\* ------------------------------------------------------- upstream connection
\* The socket connects; the 'open' handler (lines 26-34) sends one subscribe
\* per initial stock through the `socket` binding.
RECURSIVE SendInitial(_, _)
SendInitial(log, i) ==
  IF i > Len(initialStocks) THEN log
  ELSE SendInitial(Append(log, Msg(socket, "subscribe", initialStocks[i])), i + 1)

Open(ws) ==
  /\ ~crashed
  /\ readyState[ws] = "CONNECTING"
  /\ readyState' = [readyState EXCEPT ![ws] = "OPEN"]
  /\ sent' = IF HasListeners(ws) THEN SendInitial(sent, 1) ELSE sent
  /\ UNCHANGED <<socket, timer, crashed, frames, liveStockData, delivered>>
  /\ UNCHANGED httpVars

\* A frame arrives on an open socket; the 'message' handler (lines 36-50)
\* runs if the socket has one. The handler ends after the forEach: no statement
\* of server.js writes to the response objects kept in `subscriptions`.
Message(ws, f) ==
  /\ ~crashed
  /\ readyState[ws] = "OPEN"
  /\ Len(frames) < MaxFrames
  /\ frames' = Append(frames, [conn |-> ws, frame |-> f])
  /\ liveStockData' =
       IF HasListeners(ws) THEN OnMessage(liveStockData, f).cache ELSE liveStockData
  /\ UNCHANGED <<socket, readyState, timer, crashed, sent, delivered>>
  /\ UNCHANGED httpVars

\* An 'error' handler that schedules a reconnect as the 'close' handler does.
ErrorArmsTimer(ws) ==
  /\ ~crashed
  /\ readyState[ws] \in {"CONNECTING", "OPEN"}
  /\ readyState' = [readyState EXCEPT ![ws] = "CLOSING"]
  /\ crashed' = ~HasListeners(ws)
  /\ timer' = IF HasListeners(ws) THEN TRUE ELSE timer
  /\ UNCHANGED <<socket, sent, frames, liveStockData, delivered>>
  /\ UNCHANGED httpVars

\* The transport fails: ws moves the socket to CLOSING and emits 'error'
\* (lines 54-56 log it); an 'error' event without a listener is thrown and
\* ends the process.
Error(ws) ==
  /\ ~crashed
  /\ readyState[ws] \in {"CONNECTING", "OPEN"}
  /\ readyState' = [readyState EXCEPT ![ws] = "CLOSING"]
  /\ crashed' = ~HasListeners(ws)
  /\ UNCHANGED <<socket, timer, sent, frames, liveStockData, delivered>>
  /\ UNCHANGED httpVars

\* The connection ends; the 'close' handler (lines 58-63) arms the timer.
Close(ws) ==
  /\ ~crashed
  /\ readyState[ws] \in {"OPEN", "CLOSING"}
  /\ readyState' = [readyState EXCEPT ![ws] = "CLOSED"]
  /\ timer' = IF HasListeners(ws) THEN TRUE ELSE timer
  /\ UNCHANGED <<socket, crashed, sent, frames, liveStockData, delivered>>
  /\ UNCHANGED httpVars

\* The timer callback (line 61) rebinds `socket` to a new WebSocket.
Reconnect ==
  /\ ~crashed
  /\ timer
  /\ timer' = FALSE
  /\ socket' = socket + 1
  /\ readyState' = [ws \in DOMAIN readyState \cup {socket + 1} |->
                      IF ws = socket + 1 THEN "CONNECTING" ELSE readyState[ws]]
  /\ UNCHANGED <<crashed, sent, frames, liveStockData, delivered>>
  /\ UNCHANGED httpVars

\* the connection events without the frames
NextConn ==
  \/ \E ws \in DOMAIN readyState : Open(ws)
  \/ \E ws \in DOMAIN readyState : Error(ws)
  \/ \E ws \in DOMAIN readyState : Close(ws)
  \/ Reconnect

NextFeed ==
  \/ NextConn
  \/ \E ws \in DOMAIN readyState, f \in Frames : Message(ws, f)

\* ------------------------------------------------------------ HTTP requests
\* A request record: what the body carried, who sent it, where its handler
\* stands (pc), the row its last prisma call returned, and the status it
\* answered with (0 while unanswered). Its index in reqs stands for `res`.
\* A GET /stocks request also has seed, the <<index, price>> of the create it
\* awaits, and seen, what it observed when its first findMany returned.
Req(op, symbol, amount, client, pc, stock, status) ==
  [op |-> op, symbol |-> symbol, amount |-> amount, client |-> client,
   pc |-> pc, stock |-> stock, status |-> status, seed |-> <<>>, seen |-> <<>>]

Answer(r, status) == [reqs EXCEPT ![r].pc = "done", ![r].status = status]

\* The validation at the top of a handler: lines 125, 205 and 250.
Invalid(op, symbol, amount) ==
  IF op = "subscribe" THEN symbol = "" ELSE symbol = "" \/ amount <= 0

\* POST /stocks/subscribe, DELETE /stocks/sell or POST /stocks/buy arrives:
\* the handler validates the body and awaits prisma.stock.findUnique.
Arrive(op, symbol, amount, client) ==
  /\ ~crashed
  /\ Len(reqs) < MaxReq
  /\ reqs' = Append(reqs,
       IF Invalid(op, symbol, amount)
         THEN Req(op, symbol, amount, client, "done", <<>>, 400)
         ELSE Req(op, symbol, amount, client, "findUnique", <<>>, 0))
  /\ UNCHANGED <<subscriptions, ledger, ledger0, interested>>
  /\ UNCHANGED feedVars

\* findUnique returns null to a handler that creates the missing row.
FindUniqueCreatesRow(r) ==
  /\ ~crashed
  /\ reqs[r].pc = "findUnique"
  /\ LET row == FindUniqueRow(reqs[r].symbol) IN
       IF row = <<>>
         THEN /\ reqs' = Answer(r, 404)
              /\ ledger' = MapSet(ledger, reqs[r].symbol, StockRow(0, 1))
         ELSE /\ reqs' =
                   IF reqs[r].op = "sell" /\ row[1].quantity < reqs[r].amount
                     THEN Answer(r, 400)
                   ELSE [reqs EXCEPT ![r].stock = row,
                                     ![r].pc = IF reqs[r].op = "subscribe" THEN "resume"
                                               ELSE "update"]
              /\ ledger' = ledger
  /\ UNCHANGED <<subscriptions, ledger0, interested>>
  /\ UNCHANGED feedVars

\* findUnique returns to a sell handler that lacks the check of line 219.
FindUniqueNoQuantityCheck(r) ==
  /\ ~crashed
  /\ reqs[r].pc = "findUnique"
  /\ LET row == FindUniqueRow(reqs[r].symbol) IN
       reqs' =
         IF row = <<>> THEN Answer(r, 404)
         ELSE [reqs EXCEPT ![r].stock = row,
                           ![r].pc = IF reqs[r].op = "subscribe" THEN "resume"
                                     ELSE "update"]
  /\ UNCHANGED <<subscriptions, ledger, ledger0, interested>>
  /\ UNCHANGED feedVars

\* findUnique returns and the handler runs to its next await or to its answer:
\* 404 without a row (lines 135, 214, 259), 400 when the row read holds less
\* than quantityToSell (line 219).
FindUnique(r) ==
  /\ ~crashed
  /\ reqs[r].pc = "findUnique"
  /\ LET row == FindUniqueRow(reqs[r].symbol) IN
       reqs' =
         IF row = <<>> THEN Answer(r, 404)
         ELSE IF reqs[r].op = "sell" /\ row[1].quantity < reqs[r].amount
           THEN Answer(r, 400)
         ELSE [reqs EXCEPT ![r].stock = row,
                           ![r].pc = IF reqs[r].op = "subscribe" THEN "resume"
                                     ELSE "update"]
  /\ UNCHANGED <<subscriptions, ledger, ledger0, interested>>
  /\ UNCHANGED feedVars

\* An update that applies the amount to the quantity the row has when the
\* update executes.
NewQuantityRelative(req) ==
  IF req.op = "sell" THEN ledger[req.symbol].quantity - req.amount
  ELSE ledger[req.symbol].quantity + req.amount

\* The quantity prisma.stock.update writes: computed from the row read before
\* (lines 226 and 266).
NewQuantity(req) ==
  IF req.op = "sell" THEN req.stock[1].quantity - req.amount
  ELSE req.stock[1].quantity + req.amount

\* prisma.stock.update executes; buy answers (line 270), sell goes on to
\* lines 230-240 with updatedStock.
Update(r) ==
  /\ ~crashed
  /\ reqs[r].pc = "update"
  /\ LET t == reqs[r].symbol
         row == [ledger[t] EXCEPT !.quantity = NewQuantity(reqs[r])]
     IN /\ ledger' = [ledger EXCEPT ![t] = row]
        /\ reqs' = IF reqs[r].op = "buy" THEN Answer(r, 200)
                   ELSE [reqs EXCEPT ![r].stock = <<row>>, ![r].pc = "resume"]
  /\ UNCHANGED <<subscriptions, ledger0, interested>>
  /\ UNCHANGED feedVars

\* Lines 139-150 of the subscribe handler. A throwing send leaves the handler
\* through the catch after subscriptions.set.
SubscribeResume(r) ==
  /\ ~crashed
  /\ reqs[r].op = "subscribe"
  /\ reqs[r].pc = "resume"
  /\ LET t == reqs[r].symbol IN
       IF ~MapHas(subscriptions, t)
         THEN \E o \in SendOutcomes(readyState[socket]) :
                /\ sent' = Transmit(sent, o, "subscribe", t)
                /\ subscriptions' =
                     MapSet(subscriptions, t, IF o = "throws" THEN {} ELSE {r})
                /\ reqs' = Answer(r, IF o = "throws" THEN 500 ELSE 200)
                /\ interested' =
                     IF o = "throws" THEN interested
                     ELSE [interested EXCEPT ![t] = @ \cup {reqs[r].client}]
         ELSE /\ sent' = sent
              /\ subscriptions' = MapSet(subscriptions, t, subscriptions[t] \cup {r})
              /\ reqs' = Answer(r, 200)
              /\ interested' = [interested EXCEPT ![t] = @ \cup {reqs[r].client}]
  /\ UNCHANGED <<socket, readyState, timer, crashed, frames, liveStockData, delivered>>
  /\ UNCHANGED <<ledger, ledger0>>

\* POST /stocks/unsubscribe, lines 154-176: the handler awaits nothing, so the
\* request arrives and is answered in one step. `res` is this request's own
\* response object.
Unsubscribe(symbol, client) ==
  /\ ~crashed
  /\ Len(reqs) < MaxReq
  /\ LET res == Len(reqs) + 1
         done(status) == Req("unsubscribe", symbol, 0, client, "done", <<>>, status)
     IN
       IF symbol = ""
         THEN /\ reqs' = Append(reqs, done(400))
              /\ UNCHANGED <<sent, subscriptions, interested>>
       ELSE IF ~MapHas(subscriptions, symbol)
         THEN /\ reqs' = Append(reqs, done(200))
              /\ interested' = [interested EXCEPT ![symbol] = @ \ {client}]
              /\ UNCHANGED <<sent, subscriptions>>
       ELSE LET rest == subscriptions[symbol] \ {res} IN
         IF Cardinality(rest) = 0
           THEN \E o \in SendOutcomes(readyState[socket]) :
                  /\ sent' = Transmit(sent, o, "unsubscribe", symbol)
                  /\ subscriptions' =
                       IF o = "throws" THEN MapSet(subscriptions, symbol, rest)
                       ELSE MapDelete(subscriptions, symbol)
                  /\ reqs' = Append(reqs, done(IF o = "throws" THEN 500 ELSE 200))
                  /\ interested' =
                       IF o = "throws" THEN interested
                       ELSE [interested EXCEPT ![symbol] = @ \ {client}]
           ELSE /\ sent' = sent
                /\ subscriptions' = MapSet(subscriptions, symbol, rest)
                /\ reqs' = Append(reqs, done(200))
                /\ interested' = [interested EXCEPT ![symbol] = @ \ {client}]
  /\ UNCHANGED <<socket, readyState, timer, crashed, frames, liveStockData, delivered>>
  /\ UNCHANGED <<ledger, ledger0>>

\* Lines 230-243 of the sell handler, after the update returned.
SellResume(r) ==
  /\ ~crashed
  /\ reqs[r].op = "sell"
  /\ reqs[r].pc = "resume"
  /\ LET t == reqs[r].symbol IN
       IF reqs[r].stock[1].quantity = 0 /\ MapHas(subscriptions, t)
         THEN \E o \in SendOutcomes(readyState[socket]) :
                /\ sent' = Transmit(sent, o, "unsubscribe", t)
                /\ subscriptions' =
                     IF o = "throws" THEN subscriptions
                     ELSE MapDelete(subscriptions, t)
                /\ reqs' = Answer(r, IF o = "throws" THEN 500 ELSE 200)
         ELSE /\ sent' = sent
              /\ subscriptions' = subscriptions
              /\ reqs' = Answer(r, 200)
  /\ UNCHANGED <<socket, readyState, timer, crashed, frames, liveStockData, delivered>>
  /\ UNCHANGED <<ledger, ledger0, interested>>

\* ---------------------------------------------------------------- GET /stocks
\* the ledger size below which GET /stocks seeds, and the end of the slice
\* (lines 76-77)
MinStocks == 5

\* truthy cached price: `!livePrice` of line 84 is false
HasLivePrice(t) == MapHas(liveStockData, t) /\ liveStockData[t] # 0

\* The for loop of lines 79-87 from index i (1-based) on: skip the symbols
\* without a live price, stop at the first one to create. <<>> when the slice
\* is exhausted, else <<index, livePrice>>.
RECURSIVE NextToSeed(_)
NextToSeed(i) ==
  IF i > MinStocks \/ i > Len(initialStocks) THEN <<>>
  ELSE IF HasLivePrice(initialStocks[i])
    THEN <<i, liveStockData[initialStocks[i]]>>
    ELSE NextToSeed(i + 1)

\* the loop resumes at index i and runs to its next await
SeedFrom(r, i) ==
  IF NextToSeed(i) = <<>>
    THEN [reqs EXCEPT ![r].pc = "refetch", ![r].seed = <<>>]
    ELSE [reqs EXCEPT ![r].pc = "create", ![r].seed = NextToSeed(i)]

\* GET /stocks arrives and awaits prisma.stock.findMany (line 71).
ArriveList ==
  /\ ~crashed
  /\ Len(reqs) < MaxReq
  /\ reqs' = Append(reqs, Req("list", "", 0, "S1", "findMany", <<>>, 0))
  /\ UNCHANGED <<subscriptions, ledger, ledger0, interested>>
  /\ UNCHANGED feedVars

\* findMany returns; with fewer than 5 rows the loop starts at
\* initialStocks.slice(stocks.length, 5) (lines 76-77), else the handler
\* answers (lines 109-117).
FindMany(r) ==
  /\ ~crashed
  /\ reqs[r].pc = "findMany"
  /\ LET n == Cardinality(DOMAIN ledger)
         saw == [count |-> n,
                 cached |-> {t \in SeqRangeOf(initialStocks) : HasLivePrice(t)},
                 rows |-> DOMAIN ledger]
     IN reqs' =
          IF n < MinStocks
            THEN [SeedFrom(r, n + 1) EXCEPT ![r].seen = <<saw>>]
            ELSE [Answer(r, 200) EXCEPT ![r].seen = <<saw>>]
  /\ UNCHANGED <<subscriptions, ledger, ledger0, interested>>
  /\ UNCHANGED feedVars

\* prisma.stock.create executes (lines 91-98); a ticker that already has a row
\* violates the unique index and the catch of line 99 logs it. The loop goes on.
Create(r) ==
  /\ ~crashed
  /\ reqs[r].pc = "create"
  /\ LET i == reqs[r].seed[1]
         t == initialStocks[i]
     IN /\ ledger' = IF MapHas(ledger, t) THEN ledger
                     ELSE MapSet(ledger, t, StockRow(1, reqs[r].seed[2]))
        /\ reqs' = SeedFrom(r, i + 1)
  /\ UNCHANGED <<subscriptions, ledger0, interested>>
  /\ UNCHANGED feedVars

\* the second findMany returns (line 105) and the handler answers.
Refetch(r) ==
  /\ ~crashed
  /\ reqs[r].pc = "refetch"
  /\ reqs' = Answer(r, 200)
  /\ UNCHANGED <<subscriptions, ledger, ledger0, interested>>
  /\ UNCHANGED feedVars

NextList ==
  \/ ArriveList
  \/ \E r \in DOMAIN reqs : FindMany(r)
  \/ \E r \in DOMAIN reqs : Create(r)
  \/ \E r \in DOMAIN reqs : Refetch(r)

\* subscribe and unsubscribe requests
NextIntent ==
  \/ \E t \in ReqSymbols, c \in Clients : Arrive("subscribe", t, 0, c)
  \/ \E t \in ReqSymbols, c \in Clients : Unsubscribe(t, c)
  \/ \E r \in DOMAIN reqs : FindUnique(r)
  \/ \E r \in DOMAIN reqs : SubscribeResume(r)

\* buy and sell requests; the client plays no part in them
NextTrade ==
  \/ \E t \in ReqSymbols, a \in Amounts : Arrive("sell", t, a, "S1")
  \/ \E t \in ReqSymbols, a \in Amounts : Arrive("buy", t, a, "S1")
  \/ \E r \in DOMAIN reqs : FindUnique(r)
  \/ \E r \in DOMAIN reqs : Update(r)
  \/ \E r \in DOMAIN reqs : SellResume(r)

Next == NextFeed \/ NextIntent \/ NextTrade \/ NextList

Spec == Init /\ [][Next]_vars

\* The feed alone: connection events and frames, no requests.
InitFeed == Init /\ ledger = EmptyMap
SpecFeed == InitFeed /\ [][NextFeed]_vars

\* Subscribe and unsubscribe requests against the connection; every row holds 1.
InitRelay == Init /\ \A t \in DOMAIN ledger : ledger[t].quantity = 1
SpecRelay == InitRelay /\ [][NextConn \/ NextIntent]_vars

\* The same with single-trade frames arriving.
TickFrames == {Frame(TRUE, "trade", "array", <<Trade(s, p)>>) : s \in Tickers, p \in Prices}
NextTick == \E ws \in DOMAIN readyState, f \in TickFrames : Message(ws, f)
SpecTick == InitRelay /\ [][NextConn \/ NextIntent \/ NextTick]_vars

\* Buy and sell requests against the ledger; only BTC may have a row.
InitLedger == Init /\ ~MapHas(ledger, AAPL)
SpecLedger == InitLedger /\ [][NextTrade]_vars

\* Subscribe, buy and sell requests while the first connection opens.
NextOpen == \E ws \in DOMAIN readyState : Open(ws)
NextSubscribe ==
  \/ \E t \in ReqSymbols : Arrive("subscribe", t, 0, "S1")
  \/ \E r \in DOMAIN reqs : SubscribeResume(r)
SpecOrders == InitLedger /\ [][NextOpen \/ NextSubscribe \/ NextTrade]_vars

\* Every request handler against every connection event, without frames.
SpecAll == Init /\ [][NextConn \/ NextIntent \/ NextTrade]_vars

\* GET /stocks requests while single trades for two default symbols arrive on
\* the first connection.
SeedFrames == {Frame(TRUE, "trade", "array", <<Trade(s, p)>>) : s \in {BTC, ETH}, p \in Prices}
NextSeedTick == \E f \in SeedFrames : Message(InitialSocket, f)
SpecSeed == Init /\ [][NextOpen \/ NextSeedTick \/ NextList]_vars

\* =================================================================== claims
\* ------------------------------------------------------ what the claims name
Max(S) == CHOOSE x \in S : \A y \in S : y <= x

\* a trade frame carrying one or more trades, none of them malformed
WellFormedTrades(f) ==
  /\ f.json /\ f.type = "trade" /\ f.data = "array"
  /\ Len(f.trades) >= 1
  /\ \A i \in 1..Len(f.trades) : ~f.trades[i].nil

\* the last trade for symbol s in a data array: <<>> or <<price>>
LastInArray(trades, s) ==
  LET idx == {i \in 1..Len(trades) : ~trades[i].nil /\ trades[i].s = s}
  IN IF idx = {} THEN <<>> ELSE <<trades[Max(idx)].p>>

\* the last trade for symbol s in the first n frames of a log, read backwards
RECURSIVE LastTrade(_, _, _)
LastTrade(log, n, s) ==
  IF n = 0 THEN <<>>
  ELSE IF LastInArray(log[n].frame.trades, s) # <<>>
    THEN LastInArray(log[n].frame.trades, s)
    ELSE LastTrade(log, n - 1, s)

\* every frame so far was a well-formed trade frame on the initial connection
OnlyTradeFrames ==
  \A i \in 1..Len(frames) :
    frames[i].conn = InitialSocket /\ WellFormedTrades(frames[i].frame)

\* C1: after any sequence of well-formed trade frames has been processed, the
\* cache entry of each symbol is the price of the last trade for that symbol
\* in the sequence, and a symbol that never appeared has no entry.
C1_LastTradeWins ==
  OnlyTradeFrames =>
    /\ DOMAIN liveStockData \subseteq Tickers
    /\ \A s \in Tickers :
         LET last == LastTrade(frames, Len(frames), s) IN
           /\ MapHas(liveStockData, s) <=> last # <<>>
           /\ last # <<>> => liveStockData[s] = last[1]

\* C1 witness: two trade frames priced one symbol differently, a later trade
\* in the second frame overwrote an earlier one, and another symbol never appeared.
C1_Witness ==
  /\ Len(frames) = 2
  /\ OnlyTradeFrames
  /\ frames[1].frame.trades = <<Trade(BTC, 2)>>
  /\ frames[2].frame.trades = <<Trade(BTC, 2), Trade(BTC, 1)>>
  /\ liveStockData[BTC] = 1
  /\ ~MapHas(liveStockData, AAPL)

\* the subscriber count the subscribe handler keeps for a symbol
SubscriberCount(t) ==
  IF MapHas(subscriptions, t) THEN Cardinality(subscriptions[t]) ELSE 0

\* how many control messages of a type for a symbol a log holds
Transmitted(log, type, t) ==
  Cardinality({i \in 1..Len(log) : log[i].type = type /\ log[i].symbol = t})

\* C2: a subscribe request sends one upstream subscribe when it takes the
\* symbol's subscriber count from 0 to 1, and none otherwise.
C2_SubscribeOncePerTransition ==
  [][\A r \in DOMAIN reqs :
       (reqs[r].op = "subscribe" /\ reqs[r].pc = "resume" /\ reqs'[r].pc = "done") =>
         LET t == reqs[r].symbol IN
           Transmitted(sent', "subscribe", t) - Transmitted(sent, "subscribe", t)
             = IF SubscriberCount(t) = 0 /\ SubscriberCount(t)' = 1 THEN 1 ELSE 0]_vars

\* an unsubscribe request for t is answered in this step
UnsubscribeStep(t) ==
  /\ Len(reqs') = Len(reqs) + 1
  /\ reqs'[Len(reqs')].op = "unsubscribe"
  /\ reqs'[Len(reqs')].symbol = t

\* C3: an unsubscribe request sends one upstream unsubscribe exactly when it
\* takes the number of subscribers of the symbol from 1 to 0 (the last
\* remaining subscriber leaves), and none otherwise.
C3_UnsubscribeOnLastLeave ==
  [][\A t \in Tickers :
       UnsubscribeStep(t) =>
         Transmitted(sent', "unsubscribe", t) - Transmitted(sent, "unsubscribe", t)
           = IF Cardinality(interested[t]) = 1 /\ Cardinality(interested'[t]) = 0
               THEN 1 ELSE 0]_vars

\* the Subscribed-Symbol Set: the symbols whose last control message sent
\* upstream is a subscribe
SubscribedSymbols ==
  {t \in {sent[i].symbol : i \in 1..Len(sent)} :
     sent[Max({i \in 1..Len(sent) : sent[i].symbol = t})].type = "subscribe"}

\* C4: a symbol is subscribed upstream if and only if some downstream
\* subscriber currently wants it.
C4_SubscribedIffWanted ==
  \A t \in Tickers : t \in SubscribedSymbols <=> interested[t] # {}

\* C5: when a replacement connection opens, one subscribe is sent on it for
\* every symbol that was subscribed when the connection dropped.
C5_ResubscribeOnReconnect ==
  [][\A ws \in DOMAIN readyState :
       (ws # InitialSocket /\ readyState[ws] = "CONNECTING" /\ readyState'[ws] = "OPEN") =>
         \A t \in SubscribedSymbols :
           Cardinality({i \in 1..Len(sent') :
              sent'[i] = Msg(ws, "subscribe", t)}) = 1]_vars

\* C6: the connector never reaches a state from which no further connection
\* attempt is scheduled: whenever the current connection is closed, a retry
\* timer is pending.
C6_RetriesForever == readyState[socket] = "CLOSED" => timer

\* the response objects registered in the subscription map
Registered == UNION {subscriptions[t] : t \in DOMAIN subscriptions}

\* C7: every decoded tick is delivered as an update message to every
\* registered subscriber.
C7_TickBroadcast ==
  [][\A i \in 1..Len(frames') :
       (i > Len(frames) /\ WellFormedTrades(frames'[i].frame)) =>
         \A k \in 1..Len(frames'[i].frame.trades), r \in Registered :
           [to |-> r, symbol |-> frames'[i].frame.trades[k].s,
            price |-> frames'[i].frame.trades[k].p] \in delivered']_vars

\* processing the frame raises: JSON.parse fails, data is no array, or an
\* element of the array is malformed
DecodeError(f) ==
  \/ ~f.json
  \/ f.type = "trade" /\ f.data = "object"
  \/ f.type = "trade" /\ f.data = "array"
       /\ \E i \in 1..Len(f.trades) : f.trades[i].nil

\* C8: a frame whose processing raises a decode error applies no tick to the
\* cache and leaves the connection state alone.
C8_FailedFrameAppliesNothing ==
  [][\A i \in 1..Len(frames') :
       (i > Len(frames) /\ DecodeError(frames'[i].frame)) =>
         liveStockData' = liveStockData /\ readyState' = readyState]_vars

\* the amounts of the requests of one kind on one ticker answered 200, summed
RECURSIVE SumOk(_, _, _)
SumOk(n, op, t) ==
  IF n = 0 THEN 0
  ELSE SumOk(n - 1, op, t)
       + (IF reqs[n].op = op /\ reqs[n].symbol = t /\ reqs[n].status = 200
            THEN reqs[n].amount ELSE 0)

AllAnswered == \A r \in DOMAIN reqs : reqs[r].pc = "done"

\* C9: once every request is answered, each quantity is the initial quantity
\* plus the successful buys minus the successful sells.
C9_NoLostUpdate ==
  AllAnswered =>
    \A t \in DOMAIN ledger :
      ledger[t].quantity =
        ledger0[t].quantity + SumOk(Len(reqs), "buy", t) - SumOk(Len(reqs), "sell", t)

\* C10: a sell request that reads a quantity smaller than the quantity it asks
\* to sell is answered 400 and changes neither the ledger, nor the
\* subscription map, nor what was sent upstream.
C10_InsufficientQuantityRejected ==
  [][\A r \in DOMAIN reqs :
       (/\ reqs[r].op = "sell"
        /\ reqs[r].pc = "findUnique"
        /\ reqs'[r].pc # "findUnique"
        /\ MapHas(ledger, reqs[r].symbol)
        /\ reqs[r].amount > ledger[reqs[r].symbol].quantity) =>
         /\ reqs'[r].pc = "done"
         /\ reqs'[r].status = 400
         /\ ledger' = ledger
         /\ subscriptions' = subscriptions
         /\ sent' = sent]_vars

\* C10 witness: a sell asking for more than the row holds was answered 400
\* while a buy on the same row went through.
C10_Witness ==
  \E r \in DOMAIN reqs, b \in DOMAIN reqs :
    /\ reqs[r].op = "sell"
    /\ reqs[r].status = 400
    /\ MapHas(ledger, reqs[r].symbol)
    /\ reqs[r].amount > ledger0[reqs[r].symbol].quantity
    /\ reqs[b].op = "buy" /\ reqs[b].status = 200 /\ reqs[b].symbol = reqs[r].symbol


\* C11: a buy, sell or subscribe request whose findUnique finds no row is
\* answered 404 and changes neither the ledger, nor the subscription map, nor
\* what was sent upstream.
C11_NotFoundMutatesNothing ==
  [][\A r \in DOMAIN reqs :
       (/\ reqs[r].pc = "findUnique"
        /\ reqs'[r].pc # "findUnique"
        /\ ~MapHas(ledger, reqs[r].symbol)) =>
         /\ reqs'[r].pc = "done"
         /\ reqs'[r].status = 404
         /\ ledger' = ledger
         /\ subscriptions' = subscriptions
         /\ sent' = sent]_vars

\* C11 witness: after the connection opened, a subscribe and a sell naming a
\* ticker without a row were both answered 404 and still no row exists.
C11_Witness ==
  /\ sent # <<>>
  /\ \E r \in DOMAIN reqs, q \in DOMAIN reqs :
       /\ reqs[r].op = "subscribe" /\ reqs[r].status = 404
       /\ reqs[q].op = "sell" /\ reqs[q].status = 404
       /\ ~MapHas(ledger, reqs[r].symbol)
       /\ ~MapHas(ledger, reqs[q].symbol)
       /\ ~MapHas(subscriptions, reqs[r].symbol)


\* the connections that are open or being opened
LiveSockets == {ws \in DOMAIN readyState : readyState[ws] \in {"CONNECTING", "OPEN"}}

\* C12: at most one upstream connection is open or being opened, and while a
\* retry timer is pending (so that its firing creates a connection) none is.
C12_NoDoubleConnect ==
  /\ Cardinality(LiveSockets) <= 1
  /\ timer => LiveSockets = {}

\* C12 witness: the timer fired after the first connection closed and the
\* replacement connection is open, the only live one.
C12_Witness ==
  /\ socket # InitialSocket
  /\ readyState[InitialSocket] = "CLOSED"
  /\ readyState[socket] = "OPEN"
  /\ LiveSockets = {socket}


\* request r, a sell, runs lines 230-243 in this step and is answered 200
SellCompletes(r) ==
  /\ reqs[r].op = "sell"
  /\ reqs[r].pc = "resume"
  /\ reqs'[r].status = 200

\* C13: a successful sell that brings the quantity of an upstream-subscribed
\* symbol to zero sends an upstream unsubscribe for it, after which the symbol
\* is no longer subscribed upstream.
C13_SellToZeroUnsubscribes ==
  [][\A r \in DOMAIN reqs :
       (/\ SellCompletes(r)
        /\ reqs[r].stock[1].quantity = 0
        /\ reqs[r].symbol \in SubscribedSymbols) =>
         /\ Transmitted(sent', "unsubscribe", reqs[r].symbol)
              = Transmitted(sent, "unsubscribe", reqs[r].symbol) + 1
         /\ reqs[r].symbol \notin SubscribedSymbols']_vars

\* request r, a buy, has its update executed and is answered 200 in this step
BuyCompletes(r) ==
  /\ reqs[r].op = "buy"
  /\ reqs[r].pc = "update"
  /\ reqs'[r].status = 200

\* C14: when a buy completes successfully while the upstream connection is
\* open, its symbol is subscribed upstream.
C14_BuyEnsuresSubscription ==
  [][\A r \in DOMAIN reqs :
       (BuyCompletes(r) /\ readyState[socket] = "OPEN") =>
         reqs[r].symbol \in SubscribedSymbols']_vars


\* C15: a list request that found fewer than 5 ledger records has, once it is
\* answered, left a record with quantity 1 and a cached price as cost basis for
\* every default symbol that had a cached live price and no record when the
\* request read the ledger.
C15_SeedsMissingDefaults ==
  \A r \in DOMAIN reqs :
    (reqs[r].op = "list" /\ reqs[r].pc = "done" /\ reqs[r].seen[1].count < MinStocks)
      => \A t \in reqs[r].seen[1].cached \ reqs[r].seen[1].rows :
           /\ MapHas(ledger, t)
           /\ ledger[t].quantity = 1
           /\ ledger[t].buyPrice \in Prices


\* a frame that parses but is not a trade frame with data
NotATrade(f) == f.json /\ (f.type # "trade" \/ f.data = "absent")

\* the frame a step delivers: <<>> or <<entry of the frame log>>
Arriving ==
  IF Len(frames') = Len(frames) + 1 THEN <<frames'[Len(frames')]>> ELSE <<>>

\* C16: a frame that parses correctly but whose type is not trade, or that
\* carries no data, changes neither the Live Price Cache nor the subscription
\* map nor the connection state.
C16_OtherFramesIgnored ==
  [][(Arriving # <<>> /\ NotATrade(Arriving[1].frame))
       => UNCHANGED <<liveStockData, subscriptions, socket, readyState, timer, crashed>>]_vars

\* C16 witness: a frame of another type that carries a trade array, and a
\* trade frame without data, were handled on the first connection and the
\* symbol named in the array has no cache entry.
C16_Witness ==
  /\ Len(frames) = 2
  /\ frames[1] = [conn |-> InitialSocket, frame |-> Frame(TRUE, "ping", "array", <<Trade(BTC, 1)>>)]
  /\ frames[2] = [conn |-> InitialSocket, frame |-> Frame(TRUE, "trade", "absent", <<>>)]
  /\ ~MapHas(liveStockData, BTC)


\* C17: a well-formed trade frame received on any upstream connection, the
\* ones created by the reconnect timer included, leaves each symbol it names
\* cached at the price of its last trade in the frame.
C17_TicksSurviveReconnect ==
  [][(Arriving # <<>> /\ WellFormedTrades(Arriving[1].frame))
       => \A s \in Tickers :
            LET last == LastInArray(Arriving[1].frame.trades, s) IN
              last # <<>> => (MapHas(liveStockData', s) /\ liveStockData'[s] = last[1])]_vars


\* request r, a subscribe, runs lines 139-150 in this step and is answered 500
SubscribeFails(r) ==
  /\ reqs[r].op = "subscribe"
  /\ reqs[r].pc = "resume"
  /\ reqs'[r].status = 500

\* C18: a subscribe request whose upstream send fails and that reports an
\* error leaves the subscription map unchanged.
C18_FailedSubscribeNotRecorded ==
  [][\A r \in DOMAIN reqs : SubscribeFails(r) => subscriptions' = subscriptions]_vars

\* every buy and sell request so far was answered with an error status
TradesAllFailed ==
  \A r \in DOMAIN reqs :
    reqs[r].op \in {"buy", "sell"} => (reqs[r].pc = "done" /\ reqs[r].status >= 400)

\* C19: buy and sell requests that report an error leave the ledger unchanged.
C19_ErrorLeavesLedger == TradesAllFailed => ledger = ledger0


\* C20: the quantity of an instrument that starts non-negative is never
\* negative, under every interleaving of buy and sell requests on it.
C20_QuantityNeverNegative ==
  \A t \in DOMAIN ledger : ledger[t].quantity >= 0

\* C20 witness: two sells of one instrument overlapped, both read the initial
\* quantity and both succeeded, together selling more than the instrument
\* held, and the quantity ended at zero.
C20_Witness ==
  /\ Len(reqs) = 2
  /\ \A r \in DOMAIN reqs :
       reqs[r].op = "sell" /\ reqs[r].symbol = BTC /\ reqs[r].status = 200
  /\ reqs[1].amount + reqs[2].amount > ledger0[BTC].quantity
  /\ ledger[BTC].quantity = 0

====
